---- MODULE Spec2Model ----
(***************************************************************************)
(* A model of pyomo.contrib.piecewise.PiecewiseLinearFunction: the three   *)
(* construction modes, numeric evaluation by linear scan over the stored   *)
(* simplices, and the registry of symbolic call expressions with its map   *)
(* to transformation variables.  Numbers are exact rationals <<n, d>>.     *)
(* With it, the solution loaders of pyomo.contrib.solver.solution and     *)
(* var_bound_add of pyomo.contrib.mindtpy.util.                            *)
(***************************************************************************)
EXTENDS Integers, Sequences, FiniteSets, TLC

\* cfg          the arguments the component was declared with
\* present      whether the component's _data holds an entry for the index
\* obj          the PiecewiseLinearFunctionData of the index
\* constructed  whether _getitem_when_not_present has run for the index
\* built        whether a construction handler has returned normally
\* builds       how many times a construction handler has been invoked
\* ret, last    what the last operation returned or raised, and its name
VARIABLES cfg, present, obj, constructed, built, builds, ret, last

\* loader       a solution loader, with the solution data or solver it holds
\* model        the value attribute of the model's variables, and whether
\*              the variables were marked stale
\* op, sel      the last operation on the loader and the selection given
\* res          what that operation returned or raised
\* queried      whether that operation called the solver
VARIABLES loader, model, op, sel, res, queried

\* working_model  the bounds and domain of the variables of the MindtPy
\*                working model, and its list of nonlinear constraints
\* runs           how many times var_bound_add has run on it
VARIABLES working_model, runs

pwvars == <<cfg, present, obj, constructed, built, builds, ret, last>>
loadvars == <<loader, model, op, sel, res, queried>>
mindtvars == <<working_model, runs>>
vars == <<cfg, present, obj, constructed, built, builds, ret, last,
          loader, model, op, sel, res, queried, working_model, runs>>

\* ------------------------------------------------------------------ bounds
\* Coordinates of supplied points range over 0..MaxCoord.
MaxCoord == 2
\* Longest nonlinear_constraint_list of a working model.
MaxConstraints == 2
\* Most runs of var_bound_add on one working model.
MaxRuns == 2
\* Longest list given as vars_to_load or cons_to_load.
MaxSelection == 2
\* Longest list of breakpoints supplied as `points`.
MaxPoints == 3
\* Longest list supplied as `simplices` (and, less one, as `linear_functions`).
MaxSimplices == 2
\* Most symbolic call expressions registered on one instance.
MaxExprs == 2
\* Most invocations of the construction handler on one instance.
MaxBuilds == 2

\* ------------------------------------------------------- exact arithmetic
Abs(x) == IF x < 0 THEN -x ELSE x

RECURSIVE GCD(_, _)
GCD(a, b) == IF b = 0 THEN a ELSE GCD(b, a % b)

\* The rational n/d in lowest terms with a positive denominator (d # 0).
RNorm(n, d) ==
    LET g == GCD(Abs(n), Abs(d))
        s == IF d < 0 THEN -1 ELSE 1
    IN  <<(s * n) \div g, (s * d) \div g>>

Q(n) == <<n, 1>>
RAdd(a, b) == RNorm(a[1] * b[2] + b[1] * a[2], a[2] * b[2])
RSub(a, b) == RNorm(a[1] * b[2] - b[1] * a[2], a[2] * b[2])
RMul(a, b) == RNorm(a[1] * b[1], a[2] * b[2])
RDiv(a, b) == RNorm(a[1] * b[2], a[2] * b[1])
RLeq(a, b) == a[1] * b[2] <= b[1] * a[2]

RECURSIVE RSum(_)
RSum(s) == IF s = <<>> THEN Q(0) ELSE RAdd(Head(s), RSum(Tail(s)))

\* Square matrices are sequences of rows of integers.
Minor(M, c) ==
    [i \in 1..(Len(M) - 1) |->
        [j \in 1..(Len(M) - 1) |-> M[i + 1][IF j < c THEN j ELSE j + 1]]]

RECURSIVE Sum(_)
Sum(s) == IF s = <<>> THEN 0 ELSE Head(s) + Sum(Tail(s))

\* The determinant: written out up to 3 x 3, by cofactors of the first
\* row beyond.
RECURSIVE Det(_)
Det(M) ==
    IF Len(M) = 1 THEN M[1][1]
    ELSE IF Len(M) = 2 THEN M[1][1] * M[2][2] - M[1][2] * M[2][1]
    ELSE IF Len(M) = 3
    THEN M[1][1] * (M[2][2] * M[3][3] - M[2][3] * M[3][2])
         - M[1][2] * (M[2][1] * M[3][3] - M[2][3] * M[3][1])
         + M[1][3] * (M[2][1] * M[3][2] - M[2][2] * M[3][1])
    ELSE Sum([c \in 1..Len(M) |->
                IF M[1][c] = 0 THEN 0
                ELSE (IF c % 2 = 1 THEN M[1][c] ELSE -M[1][c]) * Det(Minor(M, c))])

ReplaceCol(M, k, b) ==
    [i \in 1..Len(M) |-> [j \in 1..Len(M) |-> IF j = k THEN b[i] ELSE M[i][j]]]

\* numpy.linalg.solve(A, b / den) for a non-singular A with determinant d
\* (Cramer's rule): the solution, as rationals.
Solve(A, b, den, d) ==
    [k \in 1..Len(A) |-> RNorm(Det(ReplaceCol(A, k, b)), den * d)]

\* ------------------------------------------------------- values, results
\* ZERO_TOLERANCE = 1e-8
ZERO_TOLERANCE == <<1, 100000000>>

\* What an operation returns or raises.
Blank == [kind |-> "none", num |-> Q(0), err |-> "", node |-> 0, var |-> ""]
RNum(q) == [Blank EXCEPT !.kind = "number", !.num = q]
RErr(e) == [Blank EXCEPT !.kind = "error", !.err = e]
RNode(i) == [Blank EXCEPT !.kind = "node", !.node = i]
RVar(v) == [Blank EXCEPT !.kind = "var", !.var = v]
RNone == [Blank EXCEPT !.kind = "None"]
RObj == [Blank EXCEPT !.kind = "instance"]

\* Call arguments: a native number, a fixed (not potentially variable)
\* constant, or a variable.
Native(q) == [native |-> TRUE, pv |-> FALSE, val |-> q, name |-> ""]
Param(q) == [native |-> FALSE, pv |-> FALSE, val |-> q, name |-> "p"]
Variable(n) == [native |-> FALSE, pv |-> TRUE, val |-> Q(0), name |-> n]

\* Python sequences are indexed from 0.
At(s, i) == s[i + 1]
Min(a, b) == IF a < b THEN a ELSE b

\* The nonlinear functions to approximate; each takes Arity(f) numbers.
\* "sq64" gives its values as numpy.float64, the others as Python numbers.
Arity(f) == IF f \in {"sq", "sq64"} THEN 1 ELSE 2
NumpyValued(f) == f = "sq64"
FuncValue(f, xs) ==
    CASE f \in {"sq", "sq64"} -> xs[1] * xs[1]
      [] f = "lin2" -> xs[1] + 2 * xs[2]
      [] f = "prod" -> xs[1] * xs[2]

\* ---------------------------------------------------------- linear pieces
\* lambda x : slope*x + intercept            (linear_func_factory)
Lambda1(slope, intercept) ==
    [kind |-> "lambda", coef |-> <<slope>>, const |-> intercept]
\* f(*args) closing over the solved normal   (linear_function_factory)
NormalPiece(normal) == [kind |-> "normal", coef |-> normal, const |-> Q(0)]
\* A callable supplied in linear_functions: coef . args + const
UserPiece(coef, const) == [kind |-> "user", coef |-> coef, const |-> const]

Dot(c, xs, n) == RSum([i \in 1..n |-> RMul(c[i], xs[i])])

\* The float nan; arithmetic with it gives nan.
NaN == <<0, 0>>
HasNaN(piece) ==
    piece.const = NaN \/ \E i \in DOMAIN piece.coef : piece.coef[i] = NaN

\* func(*args) for a stored piece.
ApplyPiece(piece, xs) ==
    IF HasNaN(piece) /\ Len(xs) = Len(piece.coef) THEN RNum(NaN)
    ELSE IF piece.kind = "normal"
    THEN IF Len(xs) > Len(piece.coef) THEN RErr("IndexError")
         ELSE RNum(RAdd(Dot(piece.coef, xs, Len(xs)),
                        piece.coef[Len(piece.coef)]))
    ELSE IF Len(xs) # Len(piece.coef) THEN RErr("TypeError")
         ELSE RNum(RAdd(Dot(piece.coef, xs, Len(xs)), piece.const))

\* ------------------------------------------------------------- evaluation
\* l < -ZERO_TOLERANCE, computed without large products.
BelowTolerance(l) ==
    /\ l[1] < 0
    /\ (l[2] * ZERO_TOLERANCE[1]) \div (-l[1]) < ZERO_TOLERANCE[2]

\* The matrix A of _pt_in_simplex: ones, with column j holding the
\* coordinates of the simplex's j-th extreme point.
BaryMatrix(points, simplex, dim) ==
    [i \in 1..(dim + 1) |->
        [j \in 1..(dim + 1) |->
            IF j <= Len(simplex) /\ i <= Len(At(points, simplex[j]))
            THEN At(points, simplex[j])[i] ELSE 1]]

RECURSIVE CommonDen(_)
CommonDen(pt) ==
    IF pt = <<>> THEN 1
    ELSE LET rest == CommonDen(Tail(pt))
         IN  (Head(pt)[2] * rest) \div GCD(Head(pt)[2], rest)

\* _pt_in_simplex with the upper end of a segment left unchecked.
PtInSimplexNoUpper(points, pt, simplex) ==
    IF Len(pt) = 1
    THEN IF RLeq(Q(At(points, simplex[1])[1]), pt[1]) THEN "True" ELSE "False"
    ELSE "False"

\* _pt_in_simplex solving the system without looking at the determinant.
PtInSimplexSolvingAnyway(points, pt, simplex) ==
    LET dim == Len(pt) IN
    IF dim = 1
    THEN IF /\ RLeq(Q(At(points, simplex[1])[1]), pt[1])
            /\ RLeq(pt[1], Q(At(points, simplex[2])[1]))
         THEN "True" ELSE "False"
    ELSE IF \/ Len(simplex) > dim + 1
            \/ \E j \in DOMAIN simplex : Len(At(points, simplex[j])) > dim + 1
         THEN "IndexError"
    ELSE LET A == BaryMatrix(points, simplex, dim)
             d == Det(A)
             den == CommonDen(pt)
             b == [i \in 1..(dim + 1) |->
                     IF i <= dim THEN pt[i][1] * (den \div pt[i][2]) ELSE den]
             lambdas == Solve(A, b, den, d)
         IN  IF d = 0 THEN "LinAlgError"
             ELSE IF \E k \in 1..(dim + 1) : BelowTolerance(lambdas[k])
                  THEN "False" ELSE "True"

\* _pt_in_simplex: "True", "False", or the exception raised.
PtInSimplex(points, pt, simplex) ==
    LET dim == Len(pt) IN
    IF dim = 1
    THEN IF /\ RLeq(Q(At(points, simplex[1])[1]), pt[1])
            /\ RLeq(pt[1], Q(At(points, simplex[2])[1]))
         THEN "True" ELSE "False"
    ELSE IF \/ Len(simplex) > dim + 1
            \/ \E j \in DOMAIN simplex : Len(At(points, simplex[j])) > dim + 1
         THEN "IndexError"
    ELSE LET A == BaryMatrix(points, simplex, dim)
             d == Det(A)
             den == CommonDen(pt)
             b == [i \in 1..(dim + 1) |->
                     IF i <= dim THEN pt[i][1] * (den \div pt[i][2]) ELSE den]
             lambdas == Solve(A, b, den, d)
         IN  IF d = 0 THEN "False"
             ELSE IF \E k \in 1..(dim + 1) : BelowTolerance(lambdas[k])
                  THEN "False" ELSE "True"

\* The scan going on after a match, to return the value of the last pair
\* whose simplex holds the point.
RECURSIVE ScanToLastMatch(_, _, _, _)
ScanToLastMatch(o, pt, xs, k) ==
    IF k > Min(Len(o.simplices), Len(o.linear_functions))
    THEN RErr("ValueError")
    ELSE LET in == PtInSimplex(o.points, pt, o.simplices[k])
             later == ScanToLastMatch(o, pt, xs, k + 1)
         IN  IF in = "True"
             THEN IF later.kind = "number" THEN later
                  ELSE ApplyPiece(o.linear_functions[k], xs)
             ELSE IF in = "False" THEN later
             ELSE RErr(in)

\* The linear scan of _evaluate over zip(simplices, linear_functions),
\* from position k on.
RECURSIVE Scan(_, _, _, _)
Scan(o, pt, xs, k) ==
    IF k > Min(Len(o.simplices), Len(o.linear_functions))
    THEN RErr("ValueError")
    ELSE LET in == PtInSimplex(o.points, pt, o.simplices[k]) IN
         IF in = "True" THEN ApplyPiece(o.linear_functions[k], xs)
         ELSE IF in = "False" THEN Scan(o, pt, xs, k + 1)
         ELSE RErr(in)

\* _evaluate going into the scan without the test for simplices.
EvaluateUnguarded(o, xs) == Scan(o, xs, xs, 1)

\* _evaluate(*args) for arguments with values xs.
Evaluate(o, xs) ==
    IF ~o.has_simplices THEN RErr("RuntimeError") ELSE Scan(o, xs, xs, 1)

\* ----------------------------------------------------------- construction
\* PiecewiseLinearFunctionData.__init__
NewData ==
    [has_simplices |-> FALSE, simplices |-> <<>>, points |-> <<>>,
     linear_functions |-> <<>>,
     expressions |-> <<>>, transformed_exprs |-> <<>>]

\* An argument that was not given (Initializer(None) is None).
Absent == [given |-> FALSE, scalar |-> FALSE, list |-> <<>>]
Given(scalar, list) == [given |-> TRUE, scalar |-> scalar, list |-> list]

\* One pass of the inner loop of _get_simplices_from_arg over the points
\* of a simplex, from position k on: st holds the points stored so far,
\* the local point_to_index map and the extreme points collected.
RECURSIVE ExtremePts(_, _, _)
ExtremePts(st, simplex, k) ==
    IF k > Len(simplex) THEN st
    ELSE LET pt == simplex[k]
             seen == pt \in DOMAIN st.index
             pts == IF seen THEN st.points ELSE Append(st.points, pt)
             idx == IF seen THEN st.index
                    ELSE st.index @@ (pt :> (Len(pts) - 1))
         IN  ExtremePts([points |-> pts, index |-> idx,
                         extreme |-> Append(st.extreme, idx[pt]),
                         simplices |-> st.simplices],
                        simplex, k + 1)

RECURSIVE SimplicesFromArg(_, _, _)
SimplicesFromArg(st, simplices, k) ==
    IF k > Len(simplices) THEN st
    ELSE LET one == ExtremePts([st EXCEPT !.extreme = <<>>], simplices[k], 1)
         IN  SimplicesFromArg(
                 [one EXCEPT !.simplices = Append(one.simplices, one.extreme)],
                 simplices, k + 1)

\* _get_simplices_from_arg: a scalar pt is stored as (pt,), a tuple as it is.
GetSimplicesFromArg(o, simplices) ==
    LET st == SimplicesFromArg([points |-> o.points, index |-> <<>>,
                                extreme |-> <<>>, simplices |-> <<>>],
                               simplices, 1)
    IN  [o EXCEPT !.has_simplices = TRUE, !.simplices = st.simplices,
                  !.points = st.points]

\* nonlinear_function(*xs): its value, or a TypeError when it is given the
\* wrong number of arguments.
CallFunc(f, xs) ==
    IF Len(xs) # Arity(f) THEN RErr("TypeError") ELSE RNum(Q(FuncValue(f, xs)))

\* The loop with the intercept taken at the wrong end of the segment.
RECURSIVE UnivariateFitInterceptAtX2(_, _, _, _)
UnivariateFitInterceptAtX2(o, func, nested, k) ==
    IF k > Len(o.simplices) THEN [o |-> o, r |-> RObj]
    ELSE IF nested THEN [o |-> o, r |-> RErr("TypeError")]
    ELSE LET x1 == At(o.points, o.simplices[k][1])[1]
             x2 == At(o.points, o.simplices[k][2])[1]
             y1 == CallFunc(func, <<x1>>)
             y2 == CallFunc(func, <<x2>>)
         IN  IF y1.kind = "error" THEN [o |-> o, r |-> y1]
             ELSE IF x2 - x1 = 0 /\ ~NumpyValued(func)
                  THEN [o |-> o, r |-> RErr("ZeroDivisionError")]
             ELSE LET slope == IF x2 - x1 = 0 THEN NaN
                               ELSE RDiv(RSub(y2.num, y1.num), Q(x2 - x1))
                      intercept == IF x2 - x1 = 0 THEN NaN
                                   ELSE RSub(y1.num, RMul(slope, Q(x2)))
                  IN  UnivariateFitInterceptAtX2(
                          [o EXCEPT !.linear_functions =
                               Append(@, Lambda1(slope, intercept))],
                          func, nested, k + 1)

\* The loop of _construct_from_univariate_function_and_segments, from
\* segment k on.  nested: the stored points are 1-tuples of 1-tuples, so x1
\* and x2 are tuples and the arithmetic on them raises.
RECURSIVE UnivariateFit(_, _, _, _)
UnivariateFit(o, func, nested, k) ==
    IF k > Len(o.simplices) THEN [o |-> o, r |-> RObj]
    ELSE IF nested THEN [o |-> o, r |-> RErr("TypeError")]
    ELSE LET x1 == At(o.points, o.simplices[k][1])[1]
             x2 == At(o.points, o.simplices[k][2])[1]
             y1 == CallFunc(func, <<x1>>)
             y2 == CallFunc(func, <<x2>>)
         IN  IF y1.kind = "error" THEN [o |-> o, r |-> y1]
             \* 0 / 0: Python numbers raise, a numpy.float64 gives nan
             ELSE IF x2 - x1 = 0 /\ ~NumpyValued(func)
                  THEN [o |-> o, r |-> RErr("ZeroDivisionError")]
             ELSE LET slope == IF x2 - x1 = 0 THEN NaN
                               ELSE RDiv(RSub(y2.num, y1.num), Q(x2 - x1))
                      intercept == IF x2 - x1 = 0 THEN NaN
                                   ELSE RSub(y1.num, RMul(slope, Q(x1)))
                  IN  UnivariateFit(
                          [o EXCEPT !.linear_functions =
                               Append(@, Lambda1(slope, intercept))],
                          func, nested, k + 1)

ConstructFromUnivariateFunctionAndSegments(o, func, nested) ==
    UnivariateFit(o, func, nested, 1)

\* The rows with the function's value written only over the initial 1, so
\* that a later simplex keeps the values of the one before it.
RECURSIVE FitRowsStaleValue(_, _, _, _, _)
FitRowsStaleValue(A, o, func, simplex, i) ==
    IF i > Len(simplex) THEN [A |-> A, r |-> RObj]
    ELSE LET pt == At(o.points, simplex[i])
             y == CallFunc(func, pt)
         IN  IF y.kind = "error" THEN [A |-> A, r |-> y]
             ELSE IF i > Len(A) \/ Len(pt) + 1 > Len(A)
                  THEN [A |-> A, r |-> RErr("IndexError")]
             ELSE FitRowsStaleValue(
                      [A EXCEPT ![i] =
                          [j \in 1..Len(A) |->
                              IF j <= Len(pt) THEN pt[j]
                              ELSE IF j = Len(pt) + 1 /\ A[i][j] = 1 THEN y.num[1]
                              ELSE @[j]]],
                      o, func, simplex, i + 1)

\* Rows of the system of _construct_from_function_and_simplices for the
\* extreme points of one simplex, from the i-th on: the point's coordinates,
\* then the function's value there; the other entries keep what they held.
RECURSIVE FitRows(_, _, _, _, _)
FitRows(A, o, func, simplex, i) ==
    IF i > Len(simplex) THEN [A |-> A, r |-> RObj]
    ELSE LET pt == At(o.points, simplex[i])
             y == CallFunc(func, pt)
         IN  IF y.kind = "error" THEN [A |-> A, r |-> y]
             ELSE IF i > Len(A) \/ Len(pt) + 1 > Len(A)
                  THEN [A |-> A, r |-> RErr("IndexError")]
             ELSE FitRows(
                      [A EXCEPT ![i] =
                          [j \in 1..Len(A) |->
                              IF j <= Len(pt) THEN pt[j]
                              ELSE IF j = Len(pt) + 1 THEN y.num[1]
                              ELSE @[j]]],
                      o, func, simplex, i + 1)

\* The loop with the -1 of the last equation put on the constant's column
\* instead of the function value's.
RECURSIVE HyperplaneFitWrongColumn(_, _, _, _, _)
HyperplaneFitWrongColumn(o, func, dimension, A, k) ==
    IF k > Len(o.simplices) THEN [o |-> o, r |-> RObj]
    ELSE LET simplex == o.simplices[k]
             rows == FitRows(A, o, func, simplex, 1)
             zeroed == Len(simplex) + 1
             A2 == [rows.A EXCEPT ![zeroed] =
                       [j \in 1..Len(A) |->
                           IF j = dimension + 2 THEN -1 ELSE 0]]
             b == [i \in 1..Len(A) |-> IF i = Len(A) THEN 1 ELSE 0]
             d == Det(A2)
         IN  IF rows.r.kind = "error" THEN [o |-> o, r |-> rows.r]
             ELSE IF zeroed > Len(A) THEN [o |-> o, r |-> RErr("IndexError")]
             ELSE IF d = 0 THEN [o |-> o, r |-> RErr("LinAlgError")]
             ELSE HyperplaneFitWrongColumn(
                      [o EXCEPT !.linear_functions =
                           Append(@, NormalPiece(Solve(A2, b, 1, d)))],
                      func, dimension, A2, k + 1)

\* The loop over the simplices, from the k-th on; A is reused between them.
RECURSIVE HyperplaneFit(_, _, _, _, _)
HyperplaneFit(o, func, dimension, A, k) ==
    IF k > Len(o.simplices) THEN [o |-> o, r |-> RObj]
    ELSE LET simplex == o.simplices[k]
             rows == FitRows(A, o, func, simplex, 1)
             zeroed == Len(simplex) + 1
             A2 == [rows.A EXCEPT ![zeroed] =
                       [j \in 1..Len(A) |->
                           IF j = dimension + 1 THEN -1 ELSE 0]]
             b == [i \in 1..Len(A) |-> IF i = Len(A) THEN 1 ELSE 0]
             d == Det(A2)
         IN  IF rows.r.kind = "error" THEN [o |-> o, r |-> rows.r]
             ELSE IF zeroed > Len(A) THEN [o |-> o, r |-> RErr("IndexError")]
             ELSE IF d = 0 THEN [o |-> o, r |-> RErr("LinAlgError")]
             ELSE HyperplaneFit(
                      [o EXCEPT !.linear_functions =
                           Append(@, NormalPiece(Solve(A2, b, 1, d)))],
                      func, dimension, A2, k + 1)

\* _construct_from_function_and_simplices; simplices is the value of the
\* simplices rule, read only while the instance holds no simplices.
ConstructFromFunctionAndSimplices(o, func, simplices) ==
    LET o1 == IF ~o.has_simplices THEN GetSimplicesFromArg(o, simplices.list)
              ELSE o
        dimension == Len(o1.simplices[1]) - 1
        ones == [i \in 1..(dimension + 2) |-> [j \in 1..(dimension + 2) |-> 1]]
    IN  IF Len(o1.simplices) < 1 THEN [o |-> o1, r |-> RErr("ValueError")]
        ELSE IF dimension = 1
             THEN ConstructFromUnivariateFunctionAndSegments(o1, func, FALSE)
        ELSE HyperplaneFit(o1, func, dimension, ones, 1)

\* _construct_from_linear_functions_and_simplices storing the positions of
\* the points counted from 1.
ConstructFromLinearFunctionsAndSimplicesOneBased(o, simplices, linear_functions) ==
    LET o1 == GetSimplicesFromArg(o, simplices.list)
    IN  [o |-> [o1 EXCEPT !.linear_functions = linear_functions.list,
                          !.simplices = [k \in DOMAIN o1.simplices |->
                              [j \in DOMAIN o1.simplices[k] |-> o1.simplices[k][j] + 1]]],
         r |-> RObj]

\* _construct_from_linear_functions_and_simplices
ConstructFromLinearFunctionsAndSimplices(o, simplices, linear_functions) ==
    [o |-> [GetSimplicesFromArg(o, simplices.list)
               EXCEPT !.linear_functions = linear_functions.list],
     r |-> RObj]

\* scipy.spatial.Delaunay on planar points (a library outside the
\* repository): the triangulations of the points' convex hull into empty,
\* non-overlapping triangles, each a sequence of triples of indices into
\* points in a fixed order; none exists when the points are too few or all
\* on one line, and the library then raises QhullError.
Orient(a, b, c) == (b[1] - a[1]) * (c[2] - a[2]) - (b[2] - a[2]) * (c[1] - a[1])

InClosedTriangle(p, a, b, c) ==
    LET o1 == Orient(a, b, p)
        o2 == Orient(b, c, p)
        o3 == Orient(c, a, p)
    IN  \/ (o1 >= 0 /\ o2 >= 0 /\ o3 >= 0)
        \/ (o1 =< 0 /\ o2 =< 0 /\ o3 =< 0)

TriangleEdges(t) == {<<t[1], t[2], t[3]>>, <<t[2], t[3], t[1]>>, <<t[3], t[1], t[2]>>}

\* Some edge of t has all of u on its other side.
Separates(points, t, u) ==
    \E e \in TriangleEdges(t) :
        \A m \in 1..3 :
            Orient(At(points, e[1]), At(points, e[2]), At(points, u[m]))
              * Orient(At(points, e[1]), At(points, e[2]), At(points, e[3])) =< 0

InteriorsDisjoint(points, t, u) ==
    Separates(points, t, u) \/ Separates(points, u, t)

EmptyTriangles(points) ==
    {t \in {<<i, j, k>> : i \in 0..(Len(points) - 1), j \in 0..(Len(points) - 1),
                          k \in 0..(Len(points) - 1)} :
        /\ t[1] < t[2] /\ t[2] < t[3]
        /\ Orient(At(points, t[1]), At(points, t[2]), At(points, t[3])) # 0
        /\ \A m \in 0..(Len(points) - 1) :
              \/ At(points, m) \in {At(points, t[1]), At(points, t[2]), At(points, t[3])}
              \/ ~InClosedTriangle(At(points, m), At(points, t[1]),
                                   At(points, t[2]), At(points, t[3]))}

TupleLess(t, u) ==
    \E i \in 1..Len(t) : t[i] < u[i] /\ \A j \in 1..(i - 1) : t[j] = u[j]

RECURSIVE SetToSeq(_)
SetToSeq(S) ==
    IF S = {} THEN <<>>
    ELSE LET least == CHOOSE t \in S : \A u \in S \ {t} : TupleLess(t, u)
         IN  <<least>> \o SetToSeq(S \ {least})

Delaunay(points) ==
    LET E == EmptyTriangles(points)
        Ts == {T \in SUBSET E :
                 /\ T # {}
                 /\ \A t \in T : \A u \in T \ {t} : InteriorsDisjoint(points, t, u)
                 /\ \A c \in E \ T : \E t \in T : ~InteriorsDisjoint(points, c, t)}
    IN  IF E = {} THEN {[ok |-> FALSE, simplices |-> <<>>]}
        ELSE {[ok |-> TRUE, simplices |-> SetToSeq(T)] : T \in Ts}

\* The values the triangulation can take for the points argument; only the
\* multivariate branch of _construct_from_function_and_points reads it.
Triangulations(points) ==
    IF points.given /\ ~points.scalar /\ Len(points.list) >= 1
       /\ Len(points.list[1]) = 2
    THEN Delaunay(points.list)
    ELSE {[ok |-> FALSE, simplices |-> <<>>]}

\* _construct_from_function_and_points; tri is what spatial.Delaunay gives.
ConstructFromFunctionAndPoints(o, func, points, tri) ==
    IF Len(points.list) < 1 THEN [o |-> o, r |-> RErr("ValueError")]
    ELSE LET dimension == IF points.scalar THEN 1 ELSE Len(points.list[1])
             sorted == SortSeq(points.list, LAMBDA a, b : a[1] < b[1])
             n == Len(sorted)
         IN  IF dimension = 1
             THEN ConstructFromUnivariateFunctionAndSegments(
                      [o EXCEPT !.has_simplices = TRUE,
                                !.simplices = [i \in 1..(n - 1) |-> <<i - 1, i>>],
                                !.points = @ \o [i \in 1..n |->
                                    IF points.scalar THEN sorted[i]
                                    ELSE <<sorted[i]>>]],
                      func, ~points.scalar)
             \* the except clause calls logger.error, and the module
             \* defines no logger
             ELSE IF ~tri.ok THEN [o |-> o, r |-> RErr("NameError")]
             ELSE ConstructFromFunctionAndSimplices(
                      [o EXCEPT !.has_simplices = TRUE,
                                !.simplices = tri.simplices,
                                !.points = points.list],
                      func, Absent)

\* ------------------------------------------------------ the symbolic maps
\* Addresses id() can give a PiecewiseLinearExpression of this instance;
\* a node made by another function lives at an address beyond them.
Ids == 1..MaxExprs
ForeignNode == MaxExprs + 1
SurrogateVars == {"v1", "v2"}

\* The Expression container and the ComponentMap are pyomo classes outside
\* the excerpt: maps keyed by id, which give back the object stored.
ExprSetItem(exprs, idx, node) ==
    [i \in (DOMAIN exprs) \cup {idx} |-> IF i = idx THEN node ELSE exprs[i]]
ExprHas(exprs, idx) == idx \in DOMAIN exprs
ExprGetItem(exprs, idx) == exprs[idx]
MapSetItem(m, key, v) ==
    [k \in (DOMAIN m) \cup {key} |-> IF k = key THEN v ELSE m[k]]
MapHas(m, key) == key \in DOMAIN m

\* id(expr) of a new object: an address no live object has.  Every node of
\* the instance is held by its registry, so it stays live.
NewIds(o) == Ids \ {o.expressions[i].id : i \in DOMAIN o.expressions}

\* The test with any() in the place of all().
IsNumericAny(args) == \E i \in DOMAIN args : args[i].native \/ ~args[i].pv

\* type(arg) in native_types or not arg.is_potentially_variable(), for all
IsNumeric(args) == \A i \in DOMAIN args : args[i].native \/ ~args[i].pv
Values(args) == [i \in DOMAIN args |-> args[i].val]

\* __call__ returning the expression registered earlier for the same
\* arguments, when there is one.
CallResultMemo(o, args, idx) ==
    LET same == {i \in DOMAIN o.expressions : o.expressions[i].args = args}
        expr == [id |-> idx, args |-> args]
    IN  IF IsNumeric(args) THEN [o |-> o, r |-> Evaluate(o, Values(args))]
        ELSE IF same # {}
             THEN [o |-> o, r |-> RNode(o.expressions[CHOOSE i \in same : TRUE].id)]
        ELSE [o |-> [o EXCEPT !.expressions = ExprSetItem(@, idx, expr)],
              r |-> RNode(idx)]

\* __call__ registering the expression under the key of an earlier one with
\* the same arguments.
CallResultKeyedByArgs(o, args, idx) ==
    LET same == {i \in DOMAIN o.expressions : o.expressions[i].args = args}
        key == IF same # {} THEN CHOOSE i \in same : TRUE ELSE idx
        expr == [id |-> idx, args |-> args]
    IN  IF IsNumeric(args) THEN [o |-> o, r |-> Evaluate(o, Values(args))]
        ELSE [o |-> [o EXCEPT !.expressions = ExprSetItem(@, key, expr)],
              r |-> RNode(idx)]

\* __call__ with the numeric evaluation using up the pieces it scans.
CallResultConsumingPieces(o, args, idx) ==
    IF IsNumeric(args)
    THEN [o |-> [o EXCEPT !.linear_functions = <<>>],
          r |-> Evaluate(o, Values(args))]
    ELSE LET expr == [id |-> idx, args |-> args]
             exprs == ExprSetItem(o.expressions, idx, expr)
         IN  [o |-> [o EXCEPT !.expressions = exprs],
              r |-> RNode(ExprGetItem(exprs, idx).id)]

\* __call__(*args), idx being the id() of the expression it makes: the
\* instance afterwards and the value returned.
CallResult(o, args, idx) ==
    IF IsNumeric(args)
    THEN [o |-> o, r |-> Evaluate(o, Values(args))]
    ELSE LET expr == [id |-> idx, args |-> args]
             exprs == ExprSetItem(o.expressions, idx, expr)
         IN  [o |-> [o EXCEPT !.expressions = exprs],
              r |-> RNode(ExprGetItem(exprs, idx).id)]

\* map_transformation_var keeping the variable a node is already mapped to
\* (setdefault in the place of the assignment).
MapTransformationVarKeepFirst(o, node, v) ==
    IF ~ExprHas(o.expressions, node) THEN [o |-> o, r |-> RErr("KeyError")]
    ELSE LET key == ExprGetItem(o.expressions, node).id
         IN  [o |-> IF MapHas(o.transformed_exprs, key) THEN o
                    ELSE [o EXCEPT !.transformed_exprs = MapSetItem(@, key, v)],
              r |-> RNone]

\* map_transformation_var(pw_expr, v), pw_expr the node at address node
MapTransformationVarResult(o, node, v) ==
    IF ~ExprHas(o.expressions, node) THEN [o |-> o, r |-> RErr("KeyError")]
    ELSE [o |-> [o EXCEPT !.transformed_exprs =
                    MapSetItem(@, ExprGetItem(o.expressions, node).id, v)],
          r |-> RNone]

\* get_transformation_var(pw_expr)
GetTransformationVarResult(o, node) ==
    IF MapHas(o.transformed_exprs, node) THEN RVar(o.transformed_exprs[node])
    ELSE RNone

\* ------------------------------------------------------- handler dispatch
\* The table with a function and simplices selecting their handler
\* whether or not points are given as well.
HandlerIgnoringPoints(c) ==
    LET key == <<c.func # "None", c.simplices.given, c.linear_functions.given>>
    IN  CASE c.func # "None" /\ c.points.given /\ ~c.simplices.given
               /\ ~c.linear_functions.given -> "function_and_points"
          [] key = <<TRUE, TRUE, FALSE>> -> "function_and_simplices"
          [] key = <<FALSE, TRUE, TRUE>> /\ ~c.points.given ->
                 "linear_functions_and_simplices"
          [] OTHER -> "None"

\* self._handlers.get((f, pts, simplices, linear_funcs))
Handler(c) ==
    LET key == <<c.func # "None", c.points.given, c.simplices.given,
                 c.linear_functions.given>>
    IN  CASE key = <<TRUE, TRUE, FALSE, FALSE>> -> "function_and_points"
          [] key = <<TRUE, FALSE, TRUE, FALSE>> -> "function_and_simplices"
          [] key = <<FALSE, FALSE, TRUE, TRUE>> -> "linear_functions_and_simplices"
          [] OTHER -> "None"

\* handler(obj, parent, nonlinear_function)
RunHandler(h, o, c, tri) ==
    CASE h = "function_and_points" ->
             ConstructFromFunctionAndPoints(o, c.func, c.points, tri)
      [] h = "function_and_simplices" ->
             ConstructFromFunctionAndSimplices(o, c.func, c.simplices)
      [] h = "linear_functions_and_simplices" ->
             ConstructFromLinearFunctionsAndSimplices(o, c.simplices,
                                                      c.linear_functions)

\* _getitem_when_not_present(index): the entry is stored in _data before
\* the handler is looked up.
GetItemWhenNotPresentResult(o, c, tri) ==
    LET o0 == IF ~c.indexed THEN o ELSE NewData
        h == Handler(c)
        out == RunHandler(h, o0, c, tri)
    IN  IF h = "None" THEN [o |-> o0, r |-> RErr("ValueError"), invoked |-> FALSE]
        ELSE [o |-> out.o, r |-> out.r, invoked |-> TRUE]

\* ------------------------------------------------------------------ inputs
Coords == 0..MaxCoord
Scalars == {<<x>> : x \in Coords}
SeqsUpTo(S, n) == UNION {[1..k -> S] : k \in 0..n}

\* Breakpoints on a line, and segments between two of them (in either
\* order, or twice the same one).
PointLists1 == SeqsUpTo(Scalars, MaxPoints)
Segments == {<<a, b>> : a \in Scalars, b \in Scalars}
SimplexLists1 == SeqsUpTo(Segments, MaxSimplices)

\* Points of the plane, and triangles over them: two that share a facet, one
\* that overlaps both, a flat one, and one with a grid point on an edge.
Grid2 == {<<0, 0>>, <<1, 0>>, <<0, 1>>, <<1, 1>>, <<2, 0>>}
Triangles ==
    {<<<<0, 0>>, <<1, 0>>, <<0, 1>>>>, <<<<1, 0>>, <<0, 1>>, <<1, 1>>>>,
     <<<<0, 0>>, <<1, 0>>, <<1, 1>>>>, <<<<0, 0>>, <<1, 0>>, <<2, 0>>>>,
     <<<<0, 0>>, <<2, 0>>, <<0, 1>>>>}
SimplexLists2 == SeqsUpTo(Triangles, MaxSimplices)
PointSets2 ==
    {SetToSeq(S) : S \in {T \in SUBSET Grid2 :
                            T # {} /\ Cardinality(T) <= MaxPoints + 1}}
PointLists2 ==
    PointSets2 \cup {s \o <<s[1]>> : s \in {t \in PointSets2 : Len(t) = 3}}

\* Callables supplied as linear_functions: the first of a fixed run.
UserPieces1 == <<UserPiece(<<Q(1)>>, Q(0)), UserPiece(<<Q(0)>>, Q(1)),
                 UserPiece(<<Q(3)>>, Q(-2)), UserPiece(<<Q(-1)>>, Q(2))>>
UserPieces2 == <<UserPiece(<<Q(1), Q(2)>>, Q(0)), UserPiece(<<Q(0), Q(0)>>, Q(1)),
                 UserPiece(<<Q(1), Q(1)>>, Q(-1)), UserPiece(<<Q(0), Q(1)>>, Q(0))>>
\* For n simplices: n + d pieces, as far as there are that many.
Pieces(run, n, d) ==
    SubSeq(run, 1, IF n + d < 0 THEN 0 ELSE Min(n + d, Len(run)))

Config(indexed, func, points, simplices, linear_functions) ==
    [indexed |-> indexed, func |-> func, points |-> points,
     simplices |-> simplices, linear_functions |-> linear_functions]

\* The three supported combinations of arguments, over the inputs above.
Mode1Configs ==
    {Config(FALSE, "sq", Given(sc, l), Absent, Absent) :
        sc \in BOOLEAN, l \in PointLists1}
    \cup {Config(FALSE, "sq64", Given(TRUE, l), Absent, Absent) : l \in PointLists1}
    \cup {Config(FALSE, f, Given(FALSE, l), Absent, Absent) :
            f \in {"lin2", "prod"}, l \in PointLists2}
Mode2Configs ==
    {Config(FALSE, "sq", Absent, Given(TRUE, l), Absent) : l \in SimplexLists1}
    \cup {Config(FALSE, f, Absent, Given(FALSE, l), Absent) :
            f \in {"sq", "sq64"}, l \in SeqsUpTo(Segments, 1)}
    \cup {Config(FALSE, f, Absent, Given(FALSE, l), Absent) :
            f \in {"lin2", "prod"}, l \in SimplexLists2}
Mode3Configs ==
    {Config(FALSE, "None", Absent, Given(TRUE, l),
            Given(FALSE, Pieces(UserPieces1, Len(l), d))) :
        l \in SimplexLists1, d \in {-1, 0, 1}}
    \cup {Config(FALSE, "None", Absent, Given(FALSE, l),
                 Given(FALSE, Pieces(UserPieces2, Len(l), d))) :
            l \in SimplexLists2, d \in {-1, 0, 1}}

\* Every combination of given and missing arguments, scalar and indexed,
\* with one value for each argument.
SomePoints == Given(TRUE, <<<<2>>, <<0>>, <<1>>>>)
SomeSimplices == Given(TRUE, <<<<<<0>>, <<1>>>>, <<<<1>>, <<2>>>>>>)
SomePieces == Given(FALSE, SubSeq(UserPieces1, 1, 2))
ComboConfigs ==
    {Config(ix, f, p, sx, lf) :
        ix \in BOOLEAN, f \in {"None", "sq"}, p \in {Absent, SomePoints},
        sx \in {Absent, SomeSimplices}, lf \in {Absent, SomePieces}}

\* One input for each mode, on the line and in the plane, and one
\* unsupported combination.
SomeConfigs ==
    {Config(ix, "sq", SomePoints, Absent, Absent) : ix \in BOOLEAN}
    \cup {Config(FALSE, "lin2", Absent,
                 Given(FALSE, <<<<<<0, 0>>, <<1, 0>>, <<0, 1>>>>,
                                <<<<1, 0>>, <<0, 1>>, <<1, 1>>>>>>), Absent),
          Config(FALSE, "None", Absent, SomeSimplices, SomePieces),
          Config(TRUE, "None", SomePoints, Absent, Absent)}

\* Numbers at the half-integers around the supplied coordinates, and points
\* of the plane in, on the boundary of and outside the triangles above.
Halves(lo, hi) == {RNorm(k, 2) : k \in (2 * lo - 1)..(2 * hi + 1)}
Query2 ==
    {<<Q(0), Q(0)>>, <<Q(1), Q(0)>>, <<Q(1), Q(1)>>, <<Q(2), Q(0)>>,
     <<RNorm(1, 2), RNorm(1, 2)>>, <<Q(1), RNorm(1, 2)>>,
     <<RNorm(-1, 2), Q(0)>>, <<Q(2), Q(1)>>}

\* Arguments of numeric calls: no argument, one (a number or a fixed
\* constant), two and three.
NumericArgs ==
    {<<>>, <<Param(Q(1))>>, <<Native(Q(0)), Native(Q(0)), Native(Q(0))>>}
    \cup {<<Native(x)>> : x \in {RNorm(-1, 2), RNorm(1, 2), Q(1), RNorm(5, 2)}}
    \cup {<<Native(q[1]), Native(q[2])>> :
            q \in {<<RNorm(1, 2), RNorm(1, 2)>>, <<Q(1), Q(1)>>, <<Q(2), Q(1)>>}}
\* The numeric calls made between the symbolic operations: inside and
\* outside the domain, with a fixed constant, and in the plane.
SomeNumericArgs ==
    {<<Native(Q(1))>>, <<Native(RNorm(5, 2))>>, <<Param(Q(1))>>,
     <<Native(Q(1)), Native(RNorm(1, 2))>>}
SymbolicArgs ==
    {<<Variable("x")>>, <<Variable("x"), Native(Q(1))>>}

\* ----------------------------------------------------------------- actions
\* The component's construct(): _getitem_when_not_present(index), once.
GetItemWhenNotPresent ==
    /\ ~constructed
    /\ \E tri \in Triangulations(cfg.points) :
         LET out == GetItemWhenNotPresentResult(obj, cfg, tri) IN
         /\ obj' = out.o
         /\ ret' = out.r
         /\ built' = (out.r.kind = "instance")
         /\ builds' = IF out.invoked THEN 1 ELSE 0
    /\ present' = TRUE
    /\ constructed' = TRUE
    /\ last' = "construct"
    /\ UNCHANGED cfg
    /\ UNCHANGED loadvars
    /\ UNCHANGED mindtvars

\* component[index] for an index _data holds.
GetItem ==
    /\ present /\ constructed
    /\ ret' = RObj
    /\ last' = "getitem"
    /\ UNCHANGED <<cfg, present, obj, constructed, built, builds>>
    /\ UNCHANGED loadvars
    /\ UNCHANGED mindtvars

\* The handler of the component invoked once more on a built instance.
Rebuild ==
    /\ built /\ builds < MaxBuilds
    /\ \E tri \in Triangulations(cfg.points) :
         LET out == RunHandler(Handler(cfg), obj, cfg, tri) IN
         /\ obj' = out.o
         /\ ret' = out.r
    /\ builds' = builds + 1
    /\ last' = "rebuild"
    /\ UNCHANGED <<cfg, present, constructed, built>>
    /\ UNCHANGED loadvars
    /\ UNCHANGED mindtvars

\* obj(*args); idx is the address of the expression a symbolic call makes
\* (a numeric call makes none).  The addresses are bounded, and a call that
\* needs one waits when none is free.
Call(args) ==
    /\ present
    /\ \E idx \in IF IsNumeric(args) THEN {ForeignNode} ELSE NewIds(obj) :
         LET out == CallResult(obj, args, idx) IN
         obj' = out.o /\ ret' = out.r
    /\ last' = "call"
    /\ UNCHANGED <<cfg, present, constructed, built, builds>>
    /\ UNCHANGED loadvars
    /\ UNCHANGED mindtvars

KnownNodes == {obj.expressions[i].id : i \in DOMAIN obj.expressions} \cup {ForeignNode}

MapTransformationVar(node, v) ==
    /\ present
    /\ LET out == MapTransformationVarResult(obj, node, v) IN
         obj' = out.o /\ ret' = out.r
    /\ last' = "map"
    /\ UNCHANGED <<cfg, present, constructed, built, builds>>
    /\ UNCHANGED loadvars
    /\ UNCHANGED mindtvars

GetTransformationVar(node) ==
    /\ present
    /\ ret' = GetTransformationVarResult(obj, node)
    /\ last' = "get"
    /\ UNCHANGED <<cfg, present, obj, constructed, built, builds>>
    /\ UNCHANGED loadvars
    /\ UNCHANGED mindtvars

\* ------------------------------------------------------- solution loaders
\* The variables and constraints of the model solved, and the numbers a
\* solution gives them.
ModelVars == {"x", "y", "z"}
ModelCons == {"c1", "c2"}
Numbers == 0..1

\* An Optional value: None, or the value given.
NoneOpt == [none |-> TRUE, val |-> <<>>]
Opt(v) == [none |-> FALSE, val |-> v]

\* What an operation of a loader returns or raises.
LBlank == [kind |-> "none", map |-> <<>>, err |-> ""]
LMap(m) == [LBlank EXCEPT !.kind = "map", !.map = m]
LErr(e) == [LBlank EXCEPT !.kind = "error", !.err = e]
LNone == [LBlank EXCEPT !.kind = "None"]

\* dict(zip(keys, vals)): a later pair replaces an earlier one of its key.
Zip(keys, vals) ==
    LET n == Min(Len(keys), Len(vals))
    IN  [k \in {keys[i] : i \in 1..n} |->
            vals[CHOOSE i \in 1..n :
                    keys[i] = k /\ \A j \in 1..n : keys[j] = k => j <= i]]

\* for v in items: acc[v] = d[v], from the k-th item on.
RECURSIVE Collect(_, _, _, _)
Collect(d, items, k, acc) ==
    IF k > Len(items) THEN LMap(acc)
    ELSE IF items[k] \notin DOMAIN d THEN LErr("KeyError")
    ELSE Collect(d, items, k + 1, MapSetItem(acc, items[k], d[items[k]]))

\* SolutionLoader.__init__ and its three getters
SolutionLoader(primals, duals, reduced_costs) ==
    [class |-> "SolutionLoader", primals |-> primals, duals |-> duals,
     reduced_costs |-> reduced_costs,
     variables |-> <<>>, eliminated_vars |-> <<>>, constraints |-> <<>>,
     sol_primals |-> <<>>, sol_duals |-> <<>>,
     solver |-> <<>>, valid |-> TRUE]

SolutionLoaderGetPrimals(l, vars_to_load) ==
    IF l.primals.none THEN LErr("RuntimeError")
    ELSE IF vars_to_load.none THEN LMap(l.primals.val)
    ELSE Collect(l.primals.val, vars_to_load.val, 1, <<>>)

SolutionLoaderGetDuals(l, cons_to_load) ==
    IF l.duals.none THEN LErr("RuntimeError")
    ELSE IF cons_to_load.none THEN LMap(l.duals.val)
    ELSE Collect(l.duals.val, cons_to_load.val, 1, <<>>)

SolutionLoaderGetReducedCosts(l, vars_to_load) ==
    IF l.reduced_costs.none THEN LErr("RuntimeError")
    ELSE IF vars_to_load.none THEN LMap(l.reduced_costs.val)
    ELSE Collect(l.reduced_costs.val, vars_to_load.val, 1, <<>>)

\* SolSolutionLoader.__init__: the variables and constraints written to the
\* NL file with the variables eliminated from it, and the numbers read
\* from the SOL file.
SolSolutionLoader(variables, eliminated_vars, constraints, primals, duals) ==
    [class |-> "SolSolutionLoader", primals |-> NoneOpt, duals |-> NoneOpt,
     reduced_costs |-> NoneOpt,
     variables |-> variables, eliminated_vars |-> eliminated_vars,
     constraints |-> constraints,
     sol_primals |-> primals, sol_duals |-> duals,
     solver |-> <<>>, valid |-> TRUE]

\* The expression of an eliminated variable, var + plus, with the numbers
\* of val_map in the place of its variable (replace_expressions), and its
\* value at the values the model holds (value).
Replaced(v_expr, val_map) ==
    IF v_expr.var \in DOMAIN val_map THEN val_map[v_expr.var] + v_expr.plus
    ELSE v_expr
ValueOf(v_expr, values) == values[v_expr.var].val + v_expr.plus

\* The loop over eliminated_vars in get_primals, from the k-th on.
RECURSIVE Eliminated(_, _, _)
Eliminated(eliminated_vars, k, val_map) ==
    IF k > Len(eliminated_vars) THEN val_map
    ELSE Eliminated(eliminated_vars, k + 1,
                    MapSetItem(val_map, eliminated_vars[k][1],
                               Replaced(eliminated_vars[k][2], val_map)))

\* for v in vars_to_load, and set(cons_to_load): None is not iterable
SolSolutionLoaderGetPrimals(l, vars_to_load) ==
    LET val_map == Eliminated(l.eliminated_vars, 1, Zip(l.variables, l.sol_primals))
    IN  IF vars_to_load.none THEN LErr("TypeError")
        ELSE Collect(val_map, vars_to_load.val, 1, <<>>)

SolSolutionLoaderGetDuals(l, cons_to_load) ==
    LET all == Zip(l.constraints, l.sol_duals)
        listed == {cons_to_load.val[i] : i \in DOMAIN cons_to_load.val}
    IN  IF cons_to_load.none THEN LErr("TypeError")
        ELSE LMap([c \in (DOMAIN all) \cap listed |-> all[c]])

\* PersistentSolutionLoader.__init__; the solver is an object outside the
\* excerpt, which answers a selection from the solution it holds.
PersistentSolutionLoader(solver) ==
    [class |-> "PersistentSolutionLoader", primals |-> NoneOpt,
     duals |-> NoneOpt, reduced_costs |-> NoneOpt,
     variables |-> <<>>, eliminated_vars |-> <<>>, constraints |-> <<>>,
     sol_primals |-> <<>>, sol_duals |-> <<>>,
     solver |-> solver, valid |-> TRUE]

SolverGet(solution, selection) ==
    IF selection.none THEN LMap(solution)
    ELSE Collect(solution, selection.val, 1, <<>>)

\* The getter going to the solver without the assertion.
PersistentGetUnasserted(l, solution, selection) == SolverGet(solution, selection)

\* _assert_solution_still_valid, then the solver's getter
PersistentGet(l, solution, selection) ==
    IF ~l.valid THEN LErr("RuntimeError") ELSE SolverGet(solution, selection)

\* The getters of the loader's class.
GetPrimalsResult(l, vars_to_load) ==
    CASE l.class = "SolutionLoader" -> SolutionLoaderGetPrimals(l, vars_to_load)
      [] l.class = "SolSolutionLoader" -> SolSolutionLoaderGetPrimals(l, vars_to_load)
      [] OTHER -> PersistentGet(l, l.solver.primals, vars_to_load)

GetDualsResult(l, cons_to_load) ==
    CASE l.class = "SolutionLoader" -> SolutionLoaderGetDuals(l, cons_to_load)
      [] l.class = "SolSolutionLoader" -> SolSolutionLoaderGetDuals(l, cons_to_load)
      [] OTHER -> PersistentGet(l, l.solver.duals, cons_to_load)

\* SolSolutionLoader inherits SolutionLoaderBase.get_reduced_costs
GetReducedCostsResult(l, vars_to_load) ==
    CASE l.class = "SolutionLoader" -> SolutionLoaderGetReducedCosts(l, vars_to_load)
      [] l.class = "SolSolutionLoader" -> LErr("NotImplementedError")
      [] OTHER -> PersistentGet(l, l.solver.reduced_costs, vars_to_load)

\* v.set_value(val) for every item of a map, and mark_all_as_stale
SetValues(m, primals) ==
    [value |-> [v \in ModelVars |->
                   IF v \in DOMAIN primals THEN Opt(primals[v]) ELSE m.value[v]],
     marked |-> TRUE]

\* SolutionLoaderBase.load_vars: the model afterwards and the outcome.
BaseLoadVars(l, m, vars_to_load) ==
    LET got == GetPrimalsResult(l, vars_to_load)
    IN  IF got.kind = "error" THEN [m |-> m, r |-> got]
        ELSE [m |-> SetValues(m, got.map), r |-> LNone]

\* The second loop of SolSolutionLoader.load_vars, from the k-th on.
RECURSIVE SetEliminated(_, _, _)
SetEliminated(eliminated_vars, k, values) ==
    IF k > Len(eliminated_vars) THEN values
    ELSE SetEliminated(eliminated_vars, k + 1,
             [values EXCEPT ![eliminated_vars[k][1]] =
                  Opt(ValueOf(eliminated_vars[k][2], values))])

\* SolSolutionLoader.load_vars, which does not read vars_to_load
SolLoadVars(l, m, vars_to_load) ==
    LET first == SetValues(m, Zip(l.variables, l.sol_primals))
    IN  [m |-> [first EXCEPT !.value = SetEliminated(l.eliminated_vars, 1, @)],
         r |-> LNone]

LoadVarsResult(l, m, vars_to_load) ==
    IF l.class = "SolSolutionLoader" THEN SolLoadVars(l, m, vars_to_load)
    ELSE BaseLoadVars(l, m, vars_to_load)

\* Whether an operation of the loader reaches the solver.
CallsSolver(l) == l.class = "PersistentSolutionLoader" /\ l.valid

\* The loaders and the selections tried.
Maps(S) == [S -> Numbers]
VarMaps == {m \in Maps(ModelVars) : m["z"] = 1}
ConMaps == {m \in Maps(ModelCons) : m["c2"] = 1}
Solvers ==
    {[primals |-> p, duals |-> d, reduced_costs |-> p] :
        p \in VarMaps, d \in ConMaps}
Loaders ==
    {SolutionLoader(p, d, r) :
        p \in {NoneOpt} \cup {Opt(m) : m \in Maps({"x", "y"}) \cup {[v \in ModelVars |-> 1]}},
        d \in {NoneOpt} \cup {Opt(m) : m \in ConMaps},
        r \in {NoneOpt, Opt([v \in ModelVars |-> 0])}}
    \cup {SolSolutionLoader(<<"x", "y">>, e, <<"c1", "c2">>, p, d) :
            e \in {<<>>, <<<<"z", [var |-> "x", plus |-> 1]>>>>},
            p \in [1..2 -> Numbers], d \in {<<0, 1>>, <<1, 1>>}}
    \cup {PersistentSolutionLoader(s) : s \in Solvers}
Selections(S) == {NoneOpt} \cup {Opt(l) : l \in SeqsUpTo(S, MaxSelection)}

\* ---------------------------------------------------- loader operations
GetPrimals(vars_to_load) ==
    /\ res' = GetPrimalsResult(loader, vars_to_load)
    /\ queried' = CallsSolver(loader)
    /\ op' = "get_primals"
    /\ sel' = vars_to_load
    /\ UNCHANGED <<loader, model>>
    /\ UNCHANGED pwvars
    /\ UNCHANGED mindtvars

GetDuals(cons_to_load) ==
    /\ res' = GetDualsResult(loader, cons_to_load)
    /\ queried' = CallsSolver(loader)
    /\ op' = "get_duals"
    /\ sel' = cons_to_load
    /\ UNCHANGED <<loader, model>>
    /\ UNCHANGED pwvars
    /\ UNCHANGED mindtvars

GetReducedCosts(vars_to_load) ==
    /\ res' = GetReducedCostsResult(loader, vars_to_load)
    /\ queried' = CallsSolver(loader)
    /\ op' = "get_reduced_costs"
    /\ sel' = vars_to_load
    /\ UNCHANGED <<loader, model>>
    /\ UNCHANGED pwvars
    /\ UNCHANGED mindtvars

LoadVars(vars_to_load) ==
    /\ LET out == LoadVarsResult(loader, model, vars_to_load) IN
         model' = out.m /\ res' = out.r
    /\ queried' = CallsSolver(loader)
    /\ op' = "load_vars"
    /\ sel' = vars_to_load
    /\ UNCHANGED loader
    /\ UNCHANGED pwvars
    /\ UNCHANGED mindtvars

\* PersistentSolutionLoader.invalidate
Invalidate ==
    /\ loader.class = "PersistentSolutionLoader"
    /\ loader' = [loader EXCEPT !.valid = FALSE]
    /\ res' = LNone
    /\ queried' = FALSE
    /\ op' = "invalidate"
    /\ sel' = NoneOpt
    /\ UNCHANGED model
    /\ UNCHANGED pwvars
    /\ UNCHANGED mindtvars

\* --------------------------------------------------------- var_bound_add
\* The variables of a working model, the bodies of its nonlinear
\* constraints as the sequences of variables identify_variables gives (each
\* variable of a body once), and the bounds the configuration holds.
WorkingVars == {"u", "w"}
Bodies == {<<"u">>, <<"w">>, <<"u", "w">>, <<"w", "u">>}
\* A bound of a variable: None, or a number.
NoBound == [none |-> TRUE, val |-> 0]
Bound(n) == [none |-> FALSE, val |-> n]
MindtPyConfig == [integer_var_bound |-> 3, continuous_var_bound |-> 4]
VarStates ==
    {[lb |-> l, ub |-> u, integer |-> i] :
        l \in {NoBound, Bound(0)}, u \in {NoBound, Bound(1)}, i \in BOOLEAN}
WorkingModels ==
    {[variables |-> v, nonlinear_constraint_list |-> c] :
        v \in [WorkingVars -> VarStates], c \in SeqsUpTo(Bodies, MaxConstraints)}

\* The if/elif chain of var_bound_add on one variable.
BoundAdded(var, config) ==
    IF ~var.lb.none /\ ~var.ub.none THEN var
    ELSE IF var.lb.none
    THEN [var EXCEPT !.lb =
             Bound(IF var.integer THEN -config.integer_var_bound - 1
                   ELSE -config.continuous_var_bound - 1)]
    ELSE [var EXCEPT !.ub =
             Bound(IF var.integer THEN config.integer_var_bound
                   ELSE config.continuous_var_bound)]

\* The inner loop over the variables of one body, from the k-th on.
RECURSIVE BodyBounded(_, _, _, _)
BodyBounded(variables, body, k, config) ==
    IF k > Len(body) THEN variables
    ELSE BodyBounded([variables EXCEPT ![body[k]] = BoundAdded(@, config)],
                     body, k + 1, config)

\* The outer loop over nonlinear_constraint_list, from the k-th on.
RECURSIVE ConstraintsBounded(_, _, _, _)
ConstraintsBounded(variables, list, k, config) ==
    IF k > Len(list) THEN variables
    ELSE ConstraintsBounded(BodyBounded(variables, list[k], 1, config),
                            list, k + 1, config)

\* var_bound_add(solve_data, config): the working model afterwards.
VarBoundAddResult(m, config) ==
    [m EXCEPT !.variables =
        ConstraintsBounded(@, m.nonlinear_constraint_list, 1, config)]

VarBoundAdd ==
    /\ runs < MaxRuns
    /\ working_model' = VarBoundAddResult(working_model, MindtPyConfig)
    /\ runs' = runs + 1
    /\ UNCHANGED pwvars
    /\ UNCHANGED loadvars

\* ---------------------------------------------------------- specifications
\* A working model on which var_bound_add has not run.
InitWorkingModel(models) ==
    /\ working_model \in models
    /\ runs = 0

\* A model whose variables hold no value, and no operation made yet.
InitLoader(loaders) ==
    /\ loader \in loaders
    /\ model = [value |-> [v \in ModelVars |-> NoneOpt], marked |-> FALSE]
    /\ op = "init"
    /\ sel = NoneOpt
    /\ res = LBlank
    /\ queried = FALSE

InitWith(configs) ==
    /\ cfg \in configs
    /\ present = ~cfg.indexed
    /\ obj = NewData
    /\ constructed = FALSE
    /\ built = FALSE
    /\ builds = 0
    /\ ret = Blank
    /\ last = "init"
    /\ InitLoader({SolutionLoader(NoneOpt, NoneOpt, NoneOpt)})
    /\ InitWorkingModel({[variables |-> <<>>, nonlinear_constraint_list |-> <<>>]})

\* Construction and numeric evaluation, over all the inputs.
InitGeom ==
    \/ InitWith(Mode1Configs)
    \/ InitWith(Mode2Configs)
    \/ InitWith(Mode3Configs)
    \/ InitWith(ComboConfigs)
NextGeom ==
    \/ GetItemWhenNotPresent
    \/ GetItem
    \/ \E args \in NumericArgs : Call(args)
SpecGeom == InitGeom /\ [][NextGeom]_vars

\* Every operation, over one input for each mode.
Init == InitWith(SomeConfigs)
Next ==
    \/ GetItemWhenNotPresent
    \/ GetItem
    \/ Rebuild
    \/ \E args \in SomeNumericArgs \cup SymbolicArgs : Call(args)
    \/ \E node \in KnownNodes : \E v \in SurrogateVars : MapTransformationVar(node, v)
    \/ \E node \in KnownNodes : GetTransformationVar(node)
Spec == Init /\ [][Next]_vars

\* The operations of a solution loader, over every loader.
InitLoad ==
    /\ cfg = Config(TRUE, "None", Absent, Absent, Absent)
    /\ present = FALSE
    /\ obj = NewData
    /\ constructed = FALSE
    /\ built = FALSE
    /\ builds = 0
    /\ ret = Blank
    /\ last = "init"
    /\ InitLoader(Loaders)
    /\ InitWorkingModel({[variables |-> <<>>, nonlinear_constraint_list |-> <<>>]})
NextLoad ==
    \/ \E vars_to_load \in Selections(ModelVars) : GetPrimals(vars_to_load)
    \/ \E cons_to_load \in Selections(ModelCons) : GetDuals(cons_to_load)
    \/ \E vars_to_load \in Selections(ModelVars) : GetReducedCosts(vars_to_load)
    \/ \E vars_to_load \in Selections(ModelVars) : LoadVars(vars_to_load)
    \/ Invalidate
SpecLoad == InitLoad /\ [][NextLoad]_vars

\* var_bound_add, over every working model.
InitBounds ==
    /\ cfg = Config(TRUE, "None", Absent, Absent, Absent)
    /\ present = FALSE
    /\ obj = NewData
    /\ constructed = FALSE
    /\ built = FALSE
    /\ builds = 0
    /\ ret = Blank
    /\ last = "init"
    /\ InitLoader({SolutionLoader(NoneOpt, NoneOpt, NoneOpt)})
    /\ InitWorkingModel(WorkingModels)
NextBounds == VarBoundAdd
SpecBounds == InitBounds /\ [][NextBounds]_vars

\* -------------------------------------------------------------- properties
\* The numbers xs as exact rationals, and the extreme points of the k-th
\* stored simplex.
AsRationals(p) == [i \in DOMAIN p |-> Q(p[i])]
Vertices(o, k) == {At(o.points, o.simplices[k][j]) : j \in DOMAIN o.simplices[k]}
Paired(o) == 1..Min(Len(o.simplices), Len(o.linear_functions))

\* C1: after a successful construction in any mode, evaluating at a vertex
\* of a stored simplex succeeds and gives the sampled function value there
\* (in the mode with supplied pieces: the value of the piece of a simplex
\* that has the vertex).
InterpolationExactness ==
    built =>
        \A k \in DOMAIN obj.simplices : \A p \in Vertices(obj, k) :
            LET xs == AsRationals(p)
                r == Evaluate(obj, xs)
            IN  /\ r.kind = "number"
                /\ IF cfg.func # "None" THEN r.num = Q(FuncValue(cfg.func, p))
                   ELSE \E m \in Paired(obj) :
                            /\ p \in Vertices(obj, m)
                            /\ r = ApplyPiece(obj.linear_functions[m], xs)

\* Twice the half-integer q, and containment by geometry alone: between the
\* two endpoints of a segment, whichever comes first; on the same side of
\* the three edges of a triangle.
Twice(q) == q[1] * (2 \div q[2])
Doubled(p) == [i \in DOMAIN p |-> 2 * p[i]]
Contains(o, k, pt) ==
    LET s == o.simplices[k]
        a == At(o.points, s[1])
        b == At(o.points, s[2])
    IN  IF Len(pt) = 1
        THEN \/ (2 * a[1] <= Twice(pt[1]) /\ Twice(pt[1]) <= 2 * b[1])
             \/ (2 * b[1] <= Twice(pt[1]) /\ Twice(pt[1]) <= 2 * a[1])
        ELSE InClosedTriangle(<<Twice(pt[1]), Twice(pt[2])>>, Doubled(a),
                              Doubled(b), Doubled(At(o.points, s[3])))

\* The points a call can ask about on an instance whose stored points have
\* dim coordinates.
QueryPoints(dim) ==
    IF dim = 1 THEN {<<x>> : x \in Halves(0, MaxCoord)} ELSE Query2
Dimension(o) == Len(At(o.points, 0))

NodeIds(o) == {o.expressions[i].id : i \in DOMAIN o.expressions}
Registered(o, args) == {i \in DOMAIN o.expressions : o.expressions[i].args = args}
Size(o) == Cardinality(DOMAIN o.expressions)

\* C3 as claimed: calls with the same symbolic arguments share one node, so
\* the registry never holds two nodes for the same arguments.
SymbolicMemoization ==
    \A i \in DOMAIN obj.expressions : \A j \in DOMAIN obj.expressions :
        obj.expressions[i].args = obj.expressions[j].args => i = j

\* C3 as amended: a call with symbolic arguments the instance was called
\* with before returns a node that is none of the nodes registered, and
\* the registry grows by one entry.
RepeatedCallMakesNewNode ==
    [][\A args \in SymbolicArgs :
          Call(args) /\ Registered(obj, args) # {} =>
              /\ ret'.kind = "node"
              /\ ret'.node \notin NodeIds(obj)
              /\ Size(obj') = Size(obj) + 1
              /\ Cardinality(Registered(obj', args))
                    = Cardinality(Registered(obj, args)) + 1]_vars

\* The same symbolic call was made twice, and the second has returned.
CalledTwiceWithSameArgs ==
    /\ last = "call" /\ ret.kind = "node"
    /\ \E i \in DOMAIN obj.expressions : \E j \in DOMAIN obj.expressions :
          /\ i # j
          /\ obj.expressions[i].args = obj.expressions[j].args
          /\ ret.node = obj.expressions[j].id

\* C4: a symbolic call registers its node under a key no earlier node has,
\* the node is none of the earlier nodes, and every earlier entry stays
\* as it was -- also when the arguments are those of an earlier call.
DistinctCallsDistinctNodes ==
    [][\A args \in SymbolicArgs :
          Call(args) =>
              /\ DOMAIN obj.expressions' \ DOMAIN obj.expressions # {}
              /\ \A k \in DOMAIN obj.expressions' \ DOMAIN obj.expressions :
                    obj.expressions'[k].id \notin NodeIds(obj)
              /\ \A i \in DOMAIN obj.expressions :
                    /\ i \in DOMAIN obj.expressions'
                    /\ obj.expressions'[i] = obj.expressions[i]
              /\ \A i \in DOMAIN obj.expressions' : \A j \in DOMAIN obj.expressions' :
                    i # j => obj.expressions'[i].id # obj.expressions'[j].id]_vars

\* Two symbolic calls have been made, with the same or other arguments.
TwoNodesRegistered ==
    /\ last = "call" /\ ret.kind = "node"
    /\ Size(obj) = 2
    /\ \E i \in DOMAIN obj.expressions : obj.expressions[i].id # ret.node

Supported(c) ==
    \/ c.func # "None" /\ c.points.given
          /\ ~c.simplices.given /\ ~c.linear_functions.given
    \/ c.func # "None" /\ ~c.points.given
          /\ c.simplices.given /\ ~c.linear_functions.given
    \/ c.func = "None" /\ ~c.points.given
          /\ c.simplices.given /\ c.linear_functions.given
Untouched(o) ==
    ~o.has_simplices /\ o.points = <<>> /\ o.simplices = <<>>
        /\ o.linear_functions = <<>>

\* C7: construction invokes a builder for the three supported combinations
\* of arguments and for no other; for any other combination it raises
\* ValueError and nothing is built.
ModeSelection ==
    constructed =>
        IF Supported(cfg) THEN builds = 1
        ELSE /\ builds = 0 /\ ~built /\ Untouched(obj)
             /\ last = "construct" => ret = RErr("ValueError")

\* Construction with points, simplices and a function all given has failed.
UnsupportedCombinationRefused ==
    /\ last = "construct" /\ ret = RErr("ValueError")
    /\ cfg.func # "None" /\ cfg.points.given /\ cfg.simplices.given
    /\ builds = 0

\* C8: after construction for an index has failed with the configuration
\* error, the component holds no entry for the index.
NoPartialState ==
    cfg.indexed /\ constructed /\ ~Supported(cfg) => ~present

\* C9: a builder invoked on an instance that is already built raises
\* RebuildError and leaves the instance as it was.
OneShotConstruction ==
    [][Rebuild => ret' = RErr("RebuildError") /\ obj' = obj]_vars

\* C10: after a successful construction the instance holds as many pieces
\* as simplices.
PiecesMatchSimplices ==
    built => Len(obj.simplices) = Len(obj.linear_functions)

\* ------------------------------------------------------- points and pieces
\* The coordinate tuples the arguments of the component supply.
Supplied(c) ==
    IF c.points.given THEN {c.points.list[i] : i \in DOMAIN c.points.list}
    ELSE UNION {{c.simplices.list[k][j] : j \in DOMAIN c.simplices.list[k]} :
                  k \in DOMAIN c.simplices.list}

\* C11: after construction in any mode every supplied coordinate tuple is
\* stored once: the stored points are pairwise different and as many as
\* the distinct tuples supplied.
PointRegistryIdempotence ==
    built =>
        /\ \A i \in DOMAIN obj.points : \A j \in DOMAIN obj.points :
              obj.points[i] = obj.points[j] => i = j
        /\ Len(obj.points) = Cardinality(Supplied(cfg))

\* The points of a facet two simplices share that are checked: the common
\* vertices and the midpoints between two of them.
Midpoint(p, q) == [i \in DOMAIN p |-> RNorm(p[i] + q[i], 2)]
FacetPoints(o, k, m) ==
    LET common == Vertices(o, k) \cap Vertices(o, m)
    IN  {Midpoint(p, q) : p \in common, q \in common}
SharedFacet(o, k, m) ==
    /\ k # m
    /\ Cardinality(Vertices(o, k) \cap Vertices(o, m)) >= Len(o.simplices[k]) - 1
PiecesAgreeOnFacets(o) ==
    \A k \in Paired(o) : \A m \in Paired(o) :
        SharedFacet(o, k, m) =>
            \A pt \in FacetPoints(o, k, m) :
                ApplyPiece(o.linear_functions[k], pt)
                    = ApplyPiece(o.linear_functions[m], pt)

\* C12: in every mode, the pieces of two stored simplices that share a
\* facet agree on the facet.
FacetConsistency == built => PiecesAgreeOnFacets(obj)

\* Construction from a function and explicit triangles, and a triangle
\* whose three points lie on one line.
FromFunctionAndTriangles(c) ==
    /\ Handler(c) = "function_and_simplices"
    /\ Len(c.simplices.list) >= 1
    /\ Len(c.simplices.list[1]) = 3
Flat(t) == Orient(t[1], t[2], t[3]) = 0

ScalarBreakpoints(c) ==
    Handler(c) = "function_and_points" /\ c.points.scalar
SegmentsOfFunction(c) ==
    /\ Handler(c) = "function_and_simplices"
    /\ Len(c.simplices.list) >= 1
    /\ Len(c.simplices.list[1]) = 2
RepeatedBreakpoint(c) ==
    \E i \in DOMAIN c.points.list : \E j \in DOMAIN c.points.list :
        i # j /\ c.points.list[i] = c.points.list[j]
PointSegment(c) ==
    \E k \in DOMAIN c.simplices.list :
        c.simplices.list[k][1] = c.simplices.list[k][2]

\* C14: with a repeated breakpoint or a segment of equal endpoints the fit
\* raises and the instance is not built; no piece is ever stored for a
\* segment whose endpoints are equal.
DegenerateSegmentRejection ==
    /\ last = "construct"
         /\ \/ ScalarBreakpoints(cfg) /\ RepeatedBreakpoint(cfg)
            \/ SegmentsOfFunction(cfg) /\ PointSegment(cfg)
         => ret.kind = "error" /\ ~built
    /\ ScalarBreakpoints(cfg) \/ SegmentsOfFunction(cfg) =>
         \A k \in Paired(obj) :
             At(obj.points, obj.simplices[k][1]) # At(obj.points, obj.simplices[k][2])

PointsInThePlane(c) ==
    /\ Handler(c) = "function_and_points"
    /\ ~c.points.scalar
    /\ Len(c.points.list) >= 1
    /\ Len(c.points.list[1]) = 2
Untriangulable(c) == \A tri \in Delaunay(c.points.list) : ~tri.ok

\* C15: when the points of a construction from a function and points in the
\* plane cannot be triangulated, the construction raises the error of the
\* triangulation routine and stores no points, simplices or pieces.
TriangulationFailureSurfaced ==
    last = "construct" /\ PointsInThePlane(cfg) /\ Untriangulable(cfg) =>
        ret = RErr("QhullError") /\ ~built /\ Untouched(obj)

DistinctBreakpoints(c) ==
    ScalarBreakpoints(c) /\ Len(c.points.list) >= 2 /\ ~RepeatedBreakpoint(c)
Sampled(c, o, i) == Q(FuncValue(c.func, At(o.points, i)))
Slope(c, o, i) ==
    RDiv(RSub(Sampled(c, o, i + 1), Sampled(c, o, i)),
         Q(At(o.points, i + 1)[1] - At(o.points, i)[1]))
Intercept(c, o, i) ==
    RSub(Sampled(c, o, i), RMul(Slope(c, o, i), Q(At(o.points, i)[1])))

\* C16: from n >= 2 distinct scalar breakpoints in any order the
\* construction stores the breakpoints ascending and the n-1 segments
\* (i, i+1), and the piece of segment i has the slope and the intercept of
\* the chord of the function over it; the breakpoints 0, 1, 2 with the
\* square give y = x and y = 3x - 2, 1/2 at 1/2, 5/2 at 3/2 and an error at 3.
UnivariateConstruction ==
    last = "construct" /\ DistinctBreakpoints(cfg) =>
        LET n == Len(cfg.points.list)
        IN  /\ built
            /\ Len(obj.points) = n
            /\ {obj.points[i] : i \in 1..n} = Supplied(cfg)
            /\ \A i \in 0..(n - 2) : At(obj.points, i)[1] < At(obj.points, i + 1)[1]
            /\ obj.simplices = [i \in 1..(n - 1) |-> <<i - 1, i>>]
            /\ Len(obj.linear_functions) = n - 1
            /\ \A i \in 0..(n - 2) :
                  /\ At(obj.linear_functions, i).coef = <<Slope(cfg, obj, i)>>
                  /\ At(obj.linear_functions, i).const = Intercept(cfg, obj, i)
            /\ Supplied(cfg) = {<<0>>, <<1>>, <<2>>} =>
                  /\ obj.linear_functions[1].coef = <<Q(1)>>
                  /\ obj.linear_functions[1].const = Q(0)
                  /\ obj.linear_functions[2].coef = <<Q(3)>>
                  /\ obj.linear_functions[2].const = Q(-2)
                  /\ Evaluate(obj, <<RNorm(1, 2)>>) = RNum(RNorm(1, 2))
                  /\ Evaluate(obj, <<RNorm(3, 2)>>) = RNum(RNorm(5, 2))
                  /\ Evaluate(obj, <<Q(3)>>) = RErr("ValueError")
UnsortedBreakpointsFitted ==
    /\ last = "construct" /\ DistinctBreakpoints(cfg) /\ built
    /\ cfg.points.list = <<<<2>>, <<0>>, <<1>>>>
    /\ obj.points = <<<<0>>, <<1>>, <<2>>>>
    /\ Len(obj.linear_functions) = 2

FittedInThePlane(c) == PointsInThePlane(c) \/ FromFunctionAndTriangles(c)
Slopes(piece) == SubSeq(piece.coef, 1, Len(piece.coef) - 2)
Constant(piece) == piece.coef[Len(piece.coef)]

\* C17: every piece fitted over a triangle, the first as well as the later
\* ones of a construction, has two slopes and an intercept that give the
\* function's value at each of the triangle's three vertices; the triangle
\* (0,0), (1,0), (0,1) with x + 2y gives the slopes (1, 2) and intercept 0.
HyperplaneFitExact ==
    built /\ FittedInThePlane(cfg) =>
        /\ Len(obj.linear_functions) = Len(obj.simplices)
        /\ \A k \in DOMAIN obj.simplices :
              LET piece == obj.linear_functions[k]
              IN  /\ Len(Slopes(piece)) = 2
                  /\ \A p \in Vertices(obj, k) :
                        Q(FuncValue(cfg.func, p)) =
                            RAdd(Dot(Slopes(piece), AsRationals(p), 2), Constant(piece))
                  /\ Vertices(obj, k) = {<<0, 0>>, <<1, 0>>, <<0, 1>>}
                        /\ cfg.func = "lin2"
                        => Slopes(piece) = <<Q(1), Q(2)>> /\ Constant(piece) = Q(0)
SecondTriangleFitted ==
    /\ built /\ FromFunctionAndTriangles(cfg)
    /\ Len(obj.simplices) = 2 /\ Len(obj.linear_functions) = 2
    /\ obj.linear_functions[1] # obj.linear_functions[2]
    /\ Vertices(obj, 1) = {<<0, 0>>, <<1, 0>>, <<0, 1>>}

Geometry(o) == <<o.has_simplices, o.points, o.simplices, o.linear_functions>>

\* C18: a numeric call, a symbolic call, a bind or a lookup leaves the
\* stored points, simplices and pieces as they were, and every numeric
\* evaluation gives after it the outcome it gave before it.
Immutability ==
    [][last' \in {"call", "map", "get"} =>
          /\ Geometry(obj') = Geometry(obj)
          /\ \A args \in SomeNumericArgs :
                CallResult(obj', args, ForeignNode).r
                    = CallResult(obj, args, ForeignNode).r]_vars
EvaluatedAfterBinding ==
    /\ built /\ last = "call" /\ ret.kind = "number"
    /\ DOMAIN obj.expressions # {}
    /\ DOMAIN obj.transformed_exprs # {}

Kept(before, after) ==
    \A k \in DOMAIN before : k \in DOMAIN after /\ after[k] = before[k]

\* C19: no operation removes or replaces a registered node, and no call,
\* bind or lookup removes the binding of a node or changes its variable.
AppendOnlyMaps ==
    [][/\ Kept(obj.expressions, obj'.expressions)
       /\ last' \in {"call", "map", "get"} =>
             Kept(obj.transformed_exprs, obj'.transformed_exprs)]_vars

\* What a loader's solution holds for every variable and every constraint.
HoldsPrimals(l) == l.class = "SolutionLoader" => ~l.primals.none
HoldsDuals(l) == l.class = "SolutionLoader" => ~l.duals.none
AllPrimals(l) ==
    CASE l.class = "SolutionLoader" -> l.primals.val
      [] l.class = "SolSolutionLoader" ->
            [v \in {"x", "y"} \cup {l.eliminated_vars[k][1] : k \in DOMAIN l.eliminated_vars} |->
                IF v = "x" THEN l.sol_primals[1]
                ELSE IF v = "y" THEN l.sol_primals[2]
                ELSE l.sol_primals[1] + 1]
      [] OTHER -> l.solver.primals
AllDuals(l) ==
    CASE l.class = "SolutionLoader" -> l.duals.val
      [] l.class = "SolSolutionLoader" ->
            [c \in ModelCons |-> IF c = "c1" THEN l.sol_duals[1] ELSE l.sol_duals[2]]
      [] OTHER -> l.solver.duals
Listed(selection) == {selection.val[i] : i \in DOMAIN selection.val}
Answer(all, selection) ==
    IF selection.none THEN LMap(all)
    ELSE LMap([k \in Listed(selection) |-> all[k]])

\* C20: on a valid loader of any class that holds a solution, get_primals
\* and get_duals with None return the entries of all the variables or
\* constraints of the solution, and with a list of some of them exactly
\* the entries of the listed ones.
NoneSelectsAll ==
    /\ op = "get_primals" /\ loader.valid /\ HoldsPrimals(loader)
          /\ Listed(sel) \subseteq DOMAIN AllPrimals(loader)
          => res = Answer(AllPrimals(loader), sel)
    /\ op = "get_duals" /\ loader.valid /\ HoldsDuals(loader)
          /\ Listed(sel) \subseteq DOMAIN AllDuals(loader)
          => res = Answer(AllDuals(loader), sel)

\* C21: once var_bound_add has run, every variable in the body of a
\* nonlinear constraint has a lower bound and an upper bound.
BothBoundsAdded ==
    runs >= 1 =>
        \A k \in DOMAIN working_model.nonlinear_constraint_list :
            \A i \in DOMAIN working_model.nonlinear_constraint_list[k] :
                LET var == working_model.variables[
                               working_model.nonlinear_constraint_list[k][i]]
                IN  ~var.lb.none /\ ~var.ub.none

InThePlane(o) ==
    /\ Len(o.points) > 0
    /\ \A i \in DOMAIN o.points : Len(o.points[i]) = 2
    /\ \A k \in DOMAIN o.simplices : Len(o.simplices[k]) = 3
FlatStored(o, k) ==
    Flat(<<At(o.points, o.simplices[k][1]), At(o.points, o.simplices[k][2]),
           At(o.points, o.simplices[k][3])>>)

\* C22: the containment test of a stored flat triangle answers False for
\* every point and raises nothing, and an evaluation at a point that a
\* stored triangle with area holds returns the value of such a triangle's
\* piece, whatever flat triangles are stored before it.
DegenerateSkipped ==
    built /\ InThePlane(obj) =>
        \A pt \in Query2 :
            /\ \A k \in DOMAIN obj.simplices :
                  FlatStored(obj, k) =>
                      PtInSimplex(obj.points, pt, obj.simplices[k]) = "False"
            /\ LET holding == {k \in Paired(obj) :
                                 ~FlatStored(obj, k) /\ Contains(obj, k, pt)}
               IN  holding # {} =>
                       \E k \in holding :
                           Evaluate(obj, pt) = ApplyPiece(obj.linear_functions[k], pt)
EvaluatedPastFlatTriangle ==
    /\ built /\ InThePlane(obj) /\ last = "call" /\ ret.kind = "number"
    /\ Len(obj.simplices) = 2 /\ Len(obj.linear_functions) = 2
    /\ FlatStored(obj, 1) /\ ~FlatStored(obj, 2)

Accepting(o, pt) ==
    {k \in Paired(o) : PtInSimplex(o.points, pt, o.simplices[k]) = "True"}
First(S) == CHOOSE k \in S : \A j \in S : k <= j

\* C23: a numeric evaluation at a point that the containment test accepts
\* for some simplex of the pairs scanned returns the value of the piece at
\* the position of the first such simplex, and of no later one.
FirstMatchEvaluation ==
    built /\ Len(obj.points) > 0 =>
        \A pt \in QueryPoints(Dimension(obj)) :
            Accepting(obj, pt) # {} =>
                Evaluate(obj, pt) =
                    ApplyPiece(obj.linear_functions[First(Accepting(obj, pt))], pt)
FirstOfTwoMatchesApplied ==
    /\ built /\ Len(obj.points) > 0 /\ last = "call" /\ ret.kind = "number"
    /\ \E pt \in QueryPoints(Dimension(obj)) :
          /\ Cardinality(Accepting(obj, pt)) >= 2
          /\ ret = ApplyPiece(obj.linear_functions[First(Accepting(obj, pt))], pt)
          /\ \E k \in Accepting(obj, pt) :
                ret # ApplyPiece(obj.linear_functions[k], pt)

\* C24: after construction in any mode every index in a stored simplex is
\* the position of a stored point: at least 0 and less than their number.
IndexValidity ==
    built =>
        \A k \in DOMAIN obj.simplices : \A j \in DOMAIN obj.simplices[k] :
            0 <= obj.simplices[k][j] /\ obj.simplices[k][j] < Len(obj.points)
SharedPointIndexed ==
    /\ built /\ last = "construct" /\ Handler(cfg) = "function_and_simplices"
    /\ Len(obj.simplices) = 2 /\ Len(obj.points) = 4
    /\ \E j \in DOMAIN obj.simplices[2] : obj.simplices[2][j] = 1
    /\ \E j \in DOMAIN obj.simplices[2] : obj.simplices[2][j] = 3

OnTheLine(o) ==
    /\ Len(o.points) > 0
    /\ \A i \in DOMAIN o.points : Len(o.points[i]) = 1
    /\ \A k \in DOMAIN o.simplices : Len(o.simplices[k]) = 2

\* C25: of every stored segment, however it was supplied and built, the
\* first stored endpoint is the lower one, and the containment test accepts
\* a number exactly when it lies between the two endpoints, ends included.
SegmentContainment ==
    built /\ OnTheLine(obj) =>
        \A k \in DOMAIN obj.simplices :
            /\ At(obj.points, obj.simplices[k][1])[1]
                  <= At(obj.points, obj.simplices[k][2])[1]
            /\ \A pt \in QueryPoints(1) :
                  PtInSimplex(obj.points, pt, obj.simplices[k]) = "True"
                      <=> Contains(obj, k, pt)

TupleBreakpoints(c) ==
    /\ Handler(c) = "function_and_points"
    /\ ~c.points.scalar
    /\ Len(c.points.list) >= 1
    /\ Len(c.points.list[1]) = 1
TupleSegments(c) == SegmentsOfFunction(c) /\ ~c.simplices.scalar
\* The construction with the same numbers supplied as scalars.
WithScalars(c) ==
    GetItemWhenNotPresentResult(
        NewData, [c EXCEPT !.points.scalar = TRUE, !.simplices.scalar = TRUE],
        [ok |-> FALSE, simplices |-> <<>>])

\* C26: breakpoints of the line supplied as 1-tuples build what the same
\* breakpoints supplied as scalars build: the same outcome, segments and
\* pieces, from points and from segments alike, and for segments the same
\* stored points.
ScalarsAndTuplesAlike ==
    /\ last = "construct" /\ TupleBreakpoints(cfg)
          /\ WithScalars(cfg).r.kind = "instance"
          => /\ ret = WithScalars(cfg).r
             /\ obj.simplices = WithScalars(cfg).o.simplices
             /\ obj.linear_functions = WithScalars(cfg).o.linear_functions
    /\ last = "construct" /\ TupleSegments(cfg)
          => ret = WithScalars(cfg).r /\ obj = WithScalars(cfg).o

\* C27: a fully numeric call on an instance whose simplices were never set
\* raises RuntimeError, not the error of a point outside the domain, and
\* leaves the instance as it was.
EvaluationBeforeConstruction ==
    [][last' = "call" /\ ~obj.has_simplices =>
          \A args \in NumericArgs :
              Call(args) => ret' = RErr("RuntimeError") /\ obj' = obj]_vars
EvaluatedUnbuilt ==
    /\ last = "call" /\ ~obj.has_simplices /\ ~built
    /\ ret = RErr("RuntimeError")

Invalidated(l) == l.class = "PersistentSolutionLoader" /\ ~l.valid

\* C28: a new PersistentSolutionLoader is valid; on one that was
\* invalidated every get_primals, get_duals, get_reduced_costs and
\* load_vars raises RuntimeError, does not call the solver and sets no
\* variable, and the loader stays invalid.
ValidityOneWay ==
    [][/\ op = "init" /\ loader.class = "PersistentSolutionLoader" => loader.valid
       /\ Invalidated(loader) =>
             /\ Invalidated(loader')
             /\ model' = model
             /\ op' \in {"get_primals", "get_duals", "get_reduced_costs", "load_vars"}
                   => res' = LErr("RuntimeError") /\ ~queried']_vars
LoadRefusedAfterInvalidate ==
    /\ Invalidated(loader) /\ op = "load_vars"
    /\ res = LErr("RuntimeError") /\ ~queried
    /\ \A v \in ModelVars : model.value[v].none

\* C29: a construction that completes leaves at least one simplex and one
\* piece, and a numeric evaluation at every supplied point then returns a
\* number.
NonEmptyConstruction ==
    built /\ last = "construct" =>
        /\ Len(obj.simplices) >= 1
        /\ Len(obj.linear_functions) >= 1
        /\ \A p \in Supplied(cfg) : Evaluate(obj, AsRationals(p)).kind = "number"

\* C30: on an instance built over points of D coordinates, a numeric call
\* with a number of arguments other than D returns no value.
ArityChecked ==
    built /\ (OnTheLine(obj) \/ InThePlane(obj)) =>
        \A args \in NumericArgs :
            Len(args) # Dimension(obj) =>
                Evaluate(obj, Values(args)).kind # "number"

====
